---------------------------- MODULE Spec2Model ----------------------------
(***************************************************************************)
(* Model of the Feishu WebSocket gateway (src/src/core/gateway.ts):        *)
(* the process-wide GatewayState, startGateway with its promise executor,  *)
(* the four entries of the event dispatcher, the reconnection poll and     *)
(* stopGateway.  One action is one run-to-completion step of the           *)
(* JavaScript event loop: the code between two suspension points.          *)
(***************************************************************************)
EXTENDS Integers, Sequences, FiniteSets, TLC

(***************************************************************************)
(* Bounds of the model.                                                    *)
(***************************************************************************)
\* number of startGateway calls made by the host
MaxSessions == 2
\* number of distinct truthy message identifiers the transport may push
NumIds == 3
\* handleMessage invocations that may be suspended at the same time
MaxInflight == 1

(***************************************************************************)
(* gateway.ts:35.  The source value is 5000; the model keeps the constant  *)
(* and every comparison against it, scaled down so that the eviction       *)
(* branch (size > MAX_PROCESSED_MESSAGES) is reached.                      *)
(***************************************************************************)
MAX_PROCESSED_MESSAGES == 2

Sessions == 1..MaxSessions
NoSession == 0

\* Values of event.message?.message_id.  Truthy identifiers are 1..NumIds;
\* the two falsy values JavaScript can produce here are undefined and "".
MessageIds == 1..NumIds
Undefined == 0
EmptyString == -1
PayloadIds == MessageIds \cup {Undefined, EmptyString}

\* variant: tests `messageId !== undefined` instead of truthiness
TruthyNotUndefined(messageId) == messageId # Undefined

\* JavaScript truthiness of a message_id (gateway.ts:92, 98)
Truthy(messageId) == messageId \in MessageIds

\* Bot identities the prober may resolve; NoBot is `undefined`.
NoBot == "undefined"
BotIds == {"ou_bot"}

\* cfg.channels?.feishu: absent, or present with some connection mode.
\* startGateway never reads the mode.
NoConfig == "absent"
Configs == {NoConfig, "websocket", "webhook"}

\* options.abortSignal as passed to startGateway: not supplied, supplied and
\* not yet aborted, supplied already aborted.  A signal the host aborts after
\* the call is "fired" from then on (signal.aborted is true for both).
Signals == {"none", "live", "aborted"}
SignalStates == Signals \cup {"fired"}

\* probeConnection results
ProbeResults == {"notok", "ok-undefined"} \cup BotIds

VARIABLES
    botOpenId,          \* state.botOpenId
    wsClient,           \* state.wsClient: NoSession (null) or the session whose client it is
    chatHistories,      \* state.chatHistories: the chats that have entries
    processedMessages,  \* state.processedMessages: a Set, kept in insertion order
    pc,                 \* per startGateway call: where the call is
    cfg,                \* per call: options.cfg.channels?.feishu
    signal,             \* per call: options.abortSignal
    listener,           \* per call: handleAbort is registered on the signal
    interval,           \* per call: reconnectCheckInterval is set
    started,            \* per call: wsClient.start returned, the transport delivers events
    calls,              \* per call: how often prober, factory and start were invoked
    pending,            \* handleMessage invocations awaited, per message_id
    lastLog,            \* the line written last to runtime.log / runtime.error
    evicted,            \* the identifier the latest tracking step deleted, if any
    justStopped         \* the step taken last was stopGateway

vars == <<botOpenId, wsClient, chatHistories, processedMessages, pc, cfg, signal,
          listener, interval, started, calls, pending, lastLog, evicted, justStopped>>

gatewayState == <<botOpenId, wsClient, chatHistories, processedMessages>>

Chats == {"chat"}

(***************************************************************************)
(* The insertion-ordered Set of processed message ids.                     *)
(***************************************************************************)
Range(q) == {q[i] : i \in 1..Len(q)}

\* Set.prototype.has
Has(set, x) == x \in Range(set)

\* Set.prototype.add: appends only when absent, order of insertion kept
Add(set, x) == IF Has(set, x) THEN set ELSE Append(set, x)

\* Set.prototype.delete
Delete(set, x) == SelectSeq(set, LAMBDA y : y # x)

\* variant: the duplicate test is missing
IsDuplicateNever(set, messageId) == FALSE

\* gateway.ts:92: messageId && state.processedMessages.has(messageId)
IsDuplicate(set, messageId) == Truthy(messageId) /\ Has(set, messageId)

\* variant: drops the value inserted last
EvictNewest(set) ==
    IF Len(set) > MAX_PROCESSED_MESSAGES
    THEN SubSeq(set, 1, Len(set) - 1)
    ELSE set

\* gateway.ts:101-104: delete the first value of the Set when over capacity
Evict(set) ==
    IF Len(set) > MAX_PROCESSED_MESSAGES
    THEN LET oldest == Head(set)
         IN  IF Truthy(oldest) THEN Delete(set, oldest) ELSE set
    ELSE set

\* variant: no cleanup after the insertion
TrackNoEvict(set, messageId) ==
    IF Truthy(messageId) THEN Add(set, messageId) ELSE set

\* gateway.ts:98-105: track the processed message
Track(set, messageId) ==
    IF Truthy(messageId) THEN Evict(Add(set, messageId)) ELSE set

\* The value a tracking step deleted: in `before` and no longer in `after`
Removed(before, after) ==
    LET gone == Range(before) \ Range(after)
    IN  IF gone = {} THEN Undefined ELSE CHOOSE x \in gone : TRUE

\* gateway.ts:47-49
getBotOpenId == botOpenId

(***************************************************************************)
(* Initial state: the module-level `state` object (gateway.ts:37-42), no   *)
(* startGateway call made yet.                                             *)
(***************************************************************************)
Init ==
    /\ botOpenId = NoBot
    /\ wsClient = NoSession
    /\ chatHistories = {}
    /\ processedMessages = <<>>
    /\ pc = [s \in Sessions |-> "idle"]
    /\ cfg = [s \in Sessions |-> NoConfig]
    /\ signal = [s \in Sessions |-> "none"]
    /\ listener = [s \in Sessions |-> FALSE]
    /\ interval = [s \in Sessions |-> FALSE]
    /\ started = [s \in Sessions |-> FALSE]
    /\ calls = [s \in Sessions |-> [probe |-> 0, factory |-> 0, start |-> 0]]
    /\ pending = [messageId \in PayloadIds |-> 0]
    /\ lastLog = "none"
    /\ evicted = Undefined
    /\ justStopped = FALSE


(***************************************************************************)
(* startGateway, first step (gateway.ts:59-70): from the call to the       *)
(* suspension at `await probeConnection(feishuCfg)`.                       *)
(***************************************************************************)
\* variant: the configuration test is missing
ConfigMissingNever(c) == FALSE

\* gateway.ts:65: if (!feishuCfg) throw
ConfigMissing(c) == c = NoConfig

startGateway(s, c, sig) ==
    /\ pc[s] = "idle"
    /\ \A earlier \in Sessions : earlier < s => pc[earlier] # "idle"
    /\ cfg' = [cfg EXCEPT ![s] = c]
    /\ signal' = [signal EXCEPT ![s] = sig]
    /\ IF ConfigMissing(c)
       THEN /\ pc' = [pc EXCEPT ![s] = "rejected"]
            /\ calls' = calls
       ELSE /\ pc' = [pc EXCEPT ![s] = "probing"]
            /\ calls' = [calls EXCEPT ![s].probe = @ + 1]
    /\ justStopped' = FALSE
    /\ UNCHANGED <<gatewayState, listener, interval, started, pending, lastLog, evicted>>

(***************************************************************************)
(* startGateway, second step (gateway.ts:70-191): the prober's promise     *)
(* settles with `r`; the rest of the function and the promise executor run *)
(* without suspending.  `throws` is whether wsClient.start throws.         *)
(***************************************************************************)
\* gateway.ts:71-74
ProbedIdentity(current, r) ==
    IF r = "notok" THEN current
    ELSE IF r = "ok-undefined" THEN NoBot
    ELSE r

\* variants: cleanup clears the handle whoever stored it; cleanup leaves it
cleanupAlways(handle, s) == NoSession

cleanupKeep(handle, s) == handle

\* gateway.ts:146-154, the handle part of cleanup() for session s
cleanup(handle, s) == IF handle = s THEN NoSession ELSE handle

\* variants: the aborted test is missing; the executor always returns early
AlreadyAbortedNever(sig) == FALSE

AlreadyAbortedAlways(sig) == TRUE

\* variant: only an abort that preceded the call is seen
AlreadyAbortedAtCall(sig) == sig = "aborted"

\* gateway.ts:162: abortSignal?.aborted
AlreadyAborted(sig) == sig \in {"aborted", "fired"}

\* gateway.ts:168: abortSignal?.addEventListener
ListenerAdded(sig) == sig # "none"

\* variant: the listener is not removed
ListenerKept(sig) == ListenerAdded(sig)

\* gateway.ts:188: abortSignal?.removeEventListener on the failure path
ListenerAfterStartFailure(sig) == FALSE

ProbeSettled(s, r, throws) ==
    /\ pc[s] = "probing"
    /\ botOpenId' = ProbedIdentity(botOpenId, r)
    /\ IF AlreadyAborted(signal[s])
       THEN /\ calls' = [calls EXCEPT ![s].factory = @ + 1]
            /\ wsClient' = cleanup(s, s)
            /\ pc' = [pc EXCEPT ![s] = "resolved"]
            /\ lastLog' = "starting WebSocket connection"
            /\ UNCHANGED <<listener, interval, started>>
       ELSE /\ calls' = [calls EXCEPT ![s].factory = @ + 1, ![s].start = @ + 1]
            /\ IF throws
               THEN /\ wsClient' = cleanup(s, s)
                    /\ listener' = [listener EXCEPT ![s] = ListenerAfterStartFailure(signal[s])]
                    /\ pc' = [pc EXCEPT ![s] = "rejected"]
                    /\ lastLog' = "starting WebSocket connection"
                    /\ UNCHANGED <<interval, started>>
               ELSE /\ wsClient' = s
                    /\ listener' = [listener EXCEPT ![s] = ListenerAdded(signal[s])]
                    /\ interval' = [interval EXCEPT ![s] = TRUE]
                    /\ started' = [started EXCEPT ![s] = TRUE]
                    /\ pc' = [pc EXCEPT ![s] = "running"]
                    /\ lastLog' = "WebSocket client started"
    /\ justStopped' = FALSE
    /\ UNCHANGED <<chatHistories, processedMessages, cfg, signal, pending, evicted>>

(***************************************************************************)
(* The host aborts the signal of call s.  With handleAbort registered      *)
(* (gateway.ts:156-160, 168) the listener runs once: cleanup and resolve.  *)
(***************************************************************************)
\* variant: handleAbort also clears the dedup cache
AbortClearsCache(s) ==
    /\ pc[s] # "idle"
    /\ signal[s] = "live"
    /\ signal' = [signal EXCEPT ![s] = "fired"]
    /\ IF listener[s]
       THEN /\ interval' = [interval EXCEPT ![s] = FALSE]
            /\ wsClient' = cleanup(wsClient, s)
            /\ listener' = [listener EXCEPT ![s] = FALSE]
            /\ pc' = [pc EXCEPT ![s] = IF @ = "running" THEN "resolved" ELSE @]
            /\ processedMessages' = <<>>
            /\ lastLog' = "abort signal received"
       ELSE UNCHANGED <<interval, wsClient, listener, pc, lastLog, processedMessages>>
    /\ justStopped' = FALSE
    /\ UNCHANGED <<botOpenId, chatHistories, cfg, started, calls, pending, evicted>>

Abort(s) ==
    /\ pc[s] # "idle"
    /\ signal[s] = "live"
    /\ signal' = [signal EXCEPT ![s] = "fired"]
    /\ IF listener[s]
       THEN /\ interval' = [interval EXCEPT ![s] = FALSE]
            /\ wsClient' = cleanup(wsClient, s)
            /\ listener' = [listener EXCEPT ![s] = FALSE]
            /\ pc' = [pc EXCEPT ![s] = IF @ = "running" THEN "resolved" ELSE @]
            /\ lastLog' = "abort signal received"
       ELSE UNCHANGED <<interval, wsClient, listener, pc, lastLog>>
    /\ justStopped' = FALSE
    /\ UNCHANGED <<botOpenId, chatHistories, processedMessages, cfg, started, calls, pending,
                   evicted>>

(***************************************************************************)
(* The reconnection poll (gateway.ts:175-185).  `info` is what             *)
(* wsClient.getReconnectInfo?.() does.                                     *)
(***************************************************************************)
ReconnectInfos == {"unavailable", "none", "scheduled", "throws"}

PollTick(s, info) ==
    /\ interval[s]
    /\ lastLog' = IF info = "scheduled" THEN "reconnection scheduled" ELSE lastLog
    /\ justStopped' = FALSE
    /\ UNCHANGED <<gatewayState, pc, cfg, signal, listener, interval, started, calls, pending,
                   evicted>>

(***************************************************************************)
(* The dispatcher entries (gateway.ts:85-140), invoked by the transport of *)
(* a session whose wsClient.start returned.  Nothing in the source stops   *)
(* the transport, so it may deliver for as long as it was started.         *)
(***************************************************************************)
Inflight == LET RECURSIVE Sum(_)
                Sum(K) == IF K = {} THEN 0
                          ELSE LET k == CHOOSE x \in K : TRUE
                               IN  pending[k] + Sum(K \ {k})
            IN  Sum(DOMAIN pending)

\* gateway.ts:86-117 up to the suspension at `await handleMessage(...)`
MessageReceived(s, messageId) ==
    /\ started[s]
    /\ IF IsDuplicate(processedMessages, messageId)
       THEN /\ lastLog' = "skipping duplicate message"
            /\ UNCHANGED <<processedMessages, pending, evicted>>
       ELSE /\ Inflight < MaxInflight
            /\ processedMessages' = Track(processedMessages, messageId)
            /\ pending' = [pending EXCEPT ![messageId] = @ + 1]
            /\ evicted' = Removed(processedMessages, processedMessages')
            /\ lastLog' = lastLog
    /\ justStopped' = FALSE
    /\ UNCHANGED <<botOpenId, wsClient, chatHistories, pc, cfg, signal, listener,
                   interval, started, calls>>

\* gateway.ts:107-113: handleMessage's promise fulfils; the handler is the
\* one that writes chatHistories
HandlerReturned(s, messageId, wrote) ==
    /\ started[s]
    /\ pending[messageId] > 0
    /\ pending' = [pending EXCEPT ![messageId] = @ - 1]
    /\ chatHistories' = chatHistories \cup wrote
    /\ justStopped' = FALSE
    /\ UNCHANGED <<lastLog, botOpenId, wsClient, processedMessages, pc, cfg, signal, listener,
                   interval, started, calls, evicted>>

\* variant: no try/catch, the rejection reaches the transport and ends it
HandlerThrewPropagates(s, messageId) ==
    /\ started[s]
    /\ pending[messageId] > 0
    /\ pending' = [pending EXCEPT ![messageId] = @ - 1]
    /\ started' = [started EXCEPT ![s] = FALSE]
    /\ justStopped' = FALSE
    /\ UNCHANGED <<gatewayState, pc, cfg, signal, listener, interval, calls, lastLog, evicted>>

\* variant: the catch un-records the identifier so that it is retried
HandlerThrewForgets(s, messageId) ==
    /\ started[s]
    /\ pending[messageId] > 0
    /\ pending' = [pending EXCEPT ![messageId] = @ - 1]
    /\ processedMessages' = Delete(processedMessages, messageId)
    /\ lastLog' = "error handling message"
    /\ justStopped' = FALSE
    /\ UNCHANGED <<botOpenId, wsClient, chatHistories, pc, cfg, signal, listener, interval,
                   started, calls, evicted>>

\* gateway.ts:114-116: handleMessage throws or rejects; caught and logged
HandlerThrew(s, messageId) ==
    /\ started[s]
    /\ pending[messageId] > 0
    /\ pending' = [pending EXCEPT ![messageId] = @ - 1]
    /\ lastLog' = "error handling message"
    /\ justStopped' = FALSE
    /\ UNCHANGED <<gatewayState, pc, cfg, signal, listener, interval, started, calls, evicted>>

\* gateway.ts:119-121
MessageRead(s) ==
    /\ started[s]
    /\ justStopped' = FALSE
    /\ UNCHANGED <<lastLog, gatewayState, pc, cfg, signal, listener, interval, started, calls,
                   pending, evicted>>

\* gateway.ts:123-130
BotAdded(s) ==
    /\ started[s]
    /\ lastLog' = "bot added to chat"
    /\ justStopped' = FALSE
    /\ UNCHANGED <<gatewayState, pc, cfg, signal, listener, interval, started, calls, pending,
                   evicted>>

\* gateway.ts:132-139
BotDeleted(s) ==
    /\ started[s]
    /\ lastLog' = "bot removed from chat"
    /\ justStopped' = FALSE
    /\ UNCHANGED <<gatewayState, pc, cfg, signal, listener, interval, started, calls, pending,
                   evicted>>

(***************************************************************************)
(* stopGateway (gateway.ts:197-202)                                        *)
(***************************************************************************)
\* variant: stopGateway also settles the running calls
stopGatewayResolves ==
    /\ wsClient' = NoSession
    /\ botOpenId' = NoBot
    /\ chatHistories' = {}
    /\ processedMessages' = <<>>
    /\ pc' = [s \in Sessions |-> IF pc[s] = "running" THEN "resolved" ELSE pc[s]]
    /\ justStopped' = TRUE
    /\ UNCHANGED <<lastLog, cfg, signal, listener, interval, started, calls, pending, evicted>>

\* variant: processedMessages.clear() is missing
stopGatewayKeepsCache ==
    /\ wsClient' = NoSession
    /\ botOpenId' = NoBot
    /\ chatHistories' = {}
    /\ justStopped' = TRUE
    /\ UNCHANGED <<processedMessages, lastLog, pc, cfg, signal, listener, interval, started,
                   calls, pending, evicted>>

stopGateway ==
    /\ wsClient' = NoSession
    /\ botOpenId' = NoBot
    /\ chatHistories' = {}
    /\ processedMessages' = <<>>
    /\ justStopped' = TRUE
    /\ UNCHANGED <<lastLog, pc, cfg, signal, listener, interval, started, calls, pending, evicted>>

(***************************************************************************)
(* The steps the host, the prober, the transport and the message handler   *)
(* can take, for calls S made with configurations C and signals of the     *)
(* three kinds, and message_id values M pushed by the transport.           *)
(***************************************************************************)
NextOver(S, C, M) ==
    \/ \E s \in S, c \in C, sig \in Signals : startGateway(s, c, sig)
    \/ \E s \in S, r \in ProbeResults, throws \in BOOLEAN : ProbeSettled(s, r, throws)
    \/ \E s \in S : Abort(s)
    \/ \E s \in S, info \in ReconnectInfos : PollTick(s, info)
    \/ \E s \in S, messageId \in M : MessageReceived(s, messageId)
    \/ \E s \in S, messageId \in M, wrote \in SUBSET Chats :
           HandlerReturned(s, messageId, wrote)
    \/ \E s \in S, messageId \in M : HandlerThrew(s, messageId)
    \/ \E s \in S : MessageRead(s)
    \/ \E s \in S : BotAdded(s)
    \/ \E s \in S : BotDeleted(s)
    \/ stopGateway

\* Overlapping gateway sessions: every call the host makes, a configuration
\* absent or present, one message identifier and the missing identifier.
Next == NextOver(Sessions, {NoConfig, "websocket"}, {1, Undefined})

Spec == Init /\ [][Next]_vars

\* One startGateway call followed to its end, with every configuration and
\* every message_id value.
NextOneCall == NextOver({1}, Configs, PayloadIds)

SpecOneCall == Init /\ [][NextOneCall]_vars

\* Overlapping calls, all configured, with two message identifiers pushed on
\* any started transport: the order of the cache is visible across calls.
NextTwoIds == NextOver(Sessions, {"websocket"}, {1, 2})

SpecTwoIds == Init /\ [][NextTwoIds]_vars

TypeOK ==
    /\ botOpenId \in BotIds \cup {NoBot}
    /\ wsClient \in Sessions \cup {NoSession}
    /\ chatHistories \subseteq Chats
    /\ processedMessages \in Seq(MessageIds)
    /\ pc \in [Sessions -> {"idle", "probing", "running", "resolved", "rejected"}]
    /\ cfg \in [Sessions -> Configs]
    /\ signal \in [Sessions -> SignalStates]
    /\ listener \in [Sessions -> BOOLEAN]
    /\ interval \in [Sessions -> BOOLEAN]
    /\ started \in [Sessions -> BOOLEAN]
    /\ pending \in [PayloadIds -> 0..MaxInflight]
    /\ evicted \in MessageIds \cup {Undefined}
    /\ justStopped \in BOOLEAN


(***************************************************************************)
(* Properties                                                              *)
(***************************************************************************)
NoRepeats(q) == \A i, j \in 1..Len(q) : i # j => q[i] # q[j]

\* C1: after every step the dedup cache holds at most MAX_PROCESSED_MESSAGES
\* identifiers and never holds the same identifier twice.
C1_CacheBounded ==
    /\ Len(processedMessages) <= MAX_PROCESSED_MESSAGES
    /\ NoRepeats(processedMessages)

\* a delivery has just recorded its identifier into a full cache, evicting one
C1_Witness ==
    /\ Len(processedMessages) = MAX_PROCESSED_MESSAGES
    /\ evicted \in MessageIds
    /\ Inflight > 0

\* C2: eviction is FIFO by insertion order: recording a new identifier appends
\* it, and when the cache was full removes exactly the oldest-inserted entry.
C2_FifoEviction ==
    [][\A s \in Sessions, m \in MessageIds :
          (MessageReceived(s, m) /\ ~Has(processedMessages, m)) =>
              processedMessages' =
                  IF Len(processedMessages) < MAX_PROCESSED_MESSAGES
                  THEN Append(processedMessages, m)
                  ELSE Append(Tail(processedMessages), m)]_vars

\* m1..m(MAX+1) were recorded in that order: m1 is gone, m2..m(MAX+1) remain
C2_Witness ==
    /\ processedMessages = [i \in 1..MAX_PROCESSED_MESSAGES |-> i + 1]
    /\ evicted = 1

\* C3: a message-received event whose identifier is in the dedup cache only
\* logs and returns: no handleMessage invocation, cache unchanged; one whose
\* identifier is not in the cache is recorded and handed to handleMessage once.
C3_DuplicateSuppressed ==
    [][\A s \in Sessions, m \in MessageIds :
          MessageReceived(s, m) =>
              IF Has(processedMessages, m)
              THEN /\ pending' = pending
                   /\ processedMessages' = processedMessages
                   /\ lastLog' = "skipping duplicate message"
              ELSE /\ pending' = [pending EXCEPT ![m] = @ + 1]
                   /\ Has(processedMessages', m)]_vars

\* a duplicate has been delivered and skipped while its identifier is cached
C3_Witness ==
    /\ lastLog = "skipping duplicate message"
    /\ Len(processedMessages) > 0
    /\ Inflight = 0

\* C4: a message-received event without a message identifier (undefined or
\* the empty string) always invokes handleMessage and leaves the cache as is.
C4_NoIdentifierNeverDeduplicated ==
    [][\A s \in Sessions, m \in {Undefined, EmptyString} :
          MessageReceived(s, m) =>
              /\ pending' = [pending EXCEPT ![m] = @ + 1]
              /\ processedMessages' = processedMessages]_vars

\* an event without identifier is with the handler, next to a full cache
C4_Witness ==
    /\ pending[EmptyString] + pending[Undefined] > 0
    /\ Len(processedMessages) = MAX_PROCESSED_MESSAGES

\* C5 as stated: a call made with an already aborted signal never invokes the
\* prober nor the connection factory, and is not rejected.
C5_Original ==
    \A s \in Sessions :
        (signal[s] = "aborted" /\ cfg[s] # NoConfig) =>
            /\ calls[s].probe = 0
            /\ calls[s].factory = 0
            /\ pc[s] # "rejected"

\* C5 amended: a call made with an already aborted signal (configuration
\* present) invokes the prober once and, when the prober has settled, the
\* connection factory once; it never requests the transport's start, installs
\* no abort listener and no poll, leaves no handle of its own in the state and
\* resolves (is never rejected).
C5_AbortedBeforeStart ==
    \A s \in Sessions :
        (signal[s] = "aborted" /\ cfg[s] # NoConfig) =>
            /\ pc[s] \in {"probing", "resolved"}
            /\ calls[s].probe = 1
            /\ calls[s].factory = (IF pc[s] = "resolved" THEN 1 ELSE 0)
            /\ calls[s].start = 0
            /\ ~started[s] /\ ~listener[s] /\ ~interval[s]
            /\ wsClient # s

\* a call with an already aborted signal has resolved
C5_Witness ==
    \E s \in Sessions : signal[s] = "aborted" /\ cfg[s] # NoConfig /\ pc[s] = "resolved"

\* The dispatcher entries of a started transport can be invoked
DispatchOpen ==
    \A s \in Sessions :
        started[s] =>
            /\ ENABLED MessageRead(s)
            /\ ENABLED BotAdded(s)
            /\ ENABLED BotDeleted(s)
            /\ \A m \in PayloadIds :
                   (Inflight < MaxInflight \/ IsDuplicate(processedMessages, m)) =>
                       ENABLED MessageReceived(s, m)

\* C6: a handleMessage failure is caught and logged in the dispatcher entry:
\* no startGateway call settles, the session stays as it was, the transport
\* stays started, and every entry of the dispatcher can still be invoked.
C6_HandlerFailureIsolated ==
    /\ [][\A s \in Sessions, m \in PayloadIds :
             HandlerThrew(s, m) =>
                 /\ lastLog' = "error handling message"
                 /\ pending' = [pending EXCEPT ![m] = @ - 1]
                 /\ UNCHANGED <<pc, started, interval, listener, gatewayState>>]_vars
    /\ []DispatchOpen

\* after a logged handler failure the session runs and a later event is
\* with the handler
C6_Witness ==
    /\ lastLog = "error handling message"
    /\ \E s \in Sessions : pc[s] = "running" /\ started[s]
    /\ Inflight > 0

\* C7: stopGateway can always be called and leaves handle, bot identity,
\* histories and dedup cache cleared; a second call right after changes nothing.
C7_StopClearsState ==
    /\ [](ENABLED stopGateway)
    /\ [](justStopped =>
            /\ wsClient = NoSession
            /\ getBotOpenId = NoBot
            /\ chatHistories = {}
            /\ processedMessages = <<>>)
    /\ [][(justStopped /\ justStopped') => UNCHANGED vars]_vars

\* stopGateway returned while one call is running and another is probing
C7_Witness ==
    /\ justStopped
    /\ \E s \in Sessions : pc[s] = "running"
    /\ \E s \in Sessions : pc[s] = "probing"

C9_NotConfiguredRejects ==
    /\ [][\A s \in Sessions :
             (pc[s] = "idle" /\ pc'[s] # "idle" /\ cfg'[s] = NoConfig) =>
                 /\ pc'[s] = "rejected"
                 /\ UNCHANGED <<gatewayState, calls, listener, interval, started>>]_vars
    /\ [](\A s \in Sessions :
             (pc[s] # "idle" /\ cfg[s] = NoConfig) =>
                 /\ pc[s] = "rejected"
                 /\ calls[s] = [probe |-> 0, factory |-> 0, start |-> 0]
                 /\ ~started[s] /\ ~listener[s] /\ ~interval[s]
                 /\ wsClient # s)

\* a call without configuration was rejected while another session's handle
\* and recorded identifiers are in the state
C9_Witness ==
    /\ \E s \in Sessions : pc[s] = "rejected" /\ cfg[s] = NoConfig
    /\ wsClient # NoSession
    /\ Len(processedMessages) > 0

\* C10: when the transport's start throws, the call is rejected for good, the
\* handle is not this call's, no poll runs, no abort listener stays, and a
\* later abort of the signal changes neither the state nor any call.
C10_StartFailureRollsBack ==
    /\ [](\A s \in Sessions :
             (pc[s] = "rejected" /\ cfg[s] # NoConfig) =>
                 /\ calls[s].start = 1
                 /\ ~started[s] /\ ~interval[s] /\ ~listener[s]
                 /\ wsClient # s)
    /\ [][\A s \in Sessions :
             pc[s] = "rejected" =>
                 /\ pc'[s] = "rejected"
                 /\ (signal[s] = "live" /\ signal'[s] # "live") =>
                        UNCHANGED <<gatewayState, pc, listener, interval, started, lastLog>>]_vars

\* the signal of a call rejected by a start failure was aborted afterwards
C10_Witness ==
    \E s \in Sessions :
        pc[s] = "rejected" /\ cfg[s] # NoConfig /\ signal[s] = "fired"


\* C11: a running call leaves Running only by its own signal being aborted,
\* and then resolves: stopGateway, events, handler outcomes and poll ticks do
\* not settle it; a call started without a signal stays Running for good.
C11_RunningUntilAborted ==
    /\ [][\A s \in Sessions :
             (pc[s] = "running" /\ pc'[s] # "running") =>
                 /\ signal[s] = "live"
                 /\ signal'[s] = "fired"
                 /\ pc'[s] = "resolved"]_vars
    /\ [](\A s \in Sessions :
             (started[s] /\ signal[s] # "fired") => pc[s] = "running")

\* stopGateway returned, a handler failure was logged, and the call without
\* signal is still Running
C11_Witness ==
    /\ justStopped
    /\ lastLog = "error handling message"
    /\ \E s \in Sessions : pc[s] = "running" /\ signal[s] = "none"

\* C12: when the signal of a running call is aborted, in that step the poll
\* is stopped, the handle is cleared exactly when it is this call's (another
\* call's handle stays), and the call resolves; it stays resolved, with no
\* poll, from then on.
C12_AbortWhileRunning ==
    /\ [][\A s \in Sessions :
             (pc[s] = "running" /\ signal[s] = "live" /\ signal'[s] = "fired") =>
                 /\ pc'[s] = "resolved"
                 /\ ~interval'[s]
                 /\ ~listener'[s]
                 /\ wsClient' = (IF wsClient = s THEN NoSession ELSE wsClient)
                 /\ lastLog' = "abort signal received"]_vars
    /\ [][\A s \in Sessions : pc[s] = "resolved" => pc'[s] = "resolved"]_vars
    /\ [](\A s \in Sessions : pc[s] = "resolved" => ~interval[s] /\ ~ENABLED PollTick(s, "none"))

\* a running call was cancelled while the handle in the state is the one a
\* later call stored: that handle is still there
C12_Witness ==
    \E s, t \in Sessions :
        /\ s # t
        /\ pc[s] = "resolved" /\ started[s] /\ signal[s] = "fired"
        /\ pc[t] = "running" /\ wsClient = t


\* C13: when the prober returns not-ok the call goes on to create the client
\* (no error is raised for it) and the bot identity is absent from then on:
\* getBotOpenId is undefined after the step, whatever calls came before.
C13_NotOkLeavesIdentityAbsent ==
    [][\A s \in Sessions, throws \in BOOLEAN :
          ProbeSettled(s, "notok", throws) =>
              /\ calls'[s].factory = 1
              /\ getBotOpenId' = NoBot]_vars

\* C14: never two calls Running at the same time, that is, two transports
\* started whose call has not been ended.
C14_AtMostOneRunning ==
    Cardinality({s \in Sessions : pc[s] = "running" /\ started[s]}) <= 1

\* C15: the handle in the state is non-absent only as the handle of a call
\* whose transport start succeeded and whose signal has not been aborted; it
\* becomes non-absent only in the step in which that start succeeds, and
\* stopGateway leaves it absent.  So it is never set after a start failure,
\* an already-aborted start or the cancellation of the call that stored it.
C15_HandleOnlyOfLiveSession ==
    /\ [](wsClient # NoSession =>
             /\ pc[wsClient] = "running"
             /\ started[wsClient]
             /\ calls[wsClient].start = 1
             /\ signal[wsClient] \notin {"aborted", "fired"})
    /\ [](justStopped => wsClient = NoSession)
    /\ [][(wsClient' # wsClient /\ wsClient' # NoSession) =>
             /\ pc[wsClient'] = "probing"
             /\ pc'[wsClient'] = "running"]_vars
    /\ [][\A s \in Sessions :
             (pc[s] # pc'[s] /\ pc'[s] \in {"resolved", "rejected"}) =>
                 wsClient' # s]_vars

\* one call is Running and holds the handle, another call's start failed
C15_Witness ==
    \E s, t \in Sessions :
        /\ wsClient = s /\ pc[s] = "running"
        /\ pc[t] = "rejected" /\ calls[t].start = 1

\* C16: a call whose signal was aborted before the transport start request
\* (before the call or while awaiting the prober) never requests the start:
\* when the prober settles the call resolves, no listener and no poll are
\* installed and the handle is absent; none of that changes later.
C16_CancelBeforeConnect ==
    /\ [][\A s \in Sessions :
             (pc[s] = "probing" /\ pc'[s] # "probing"
                  /\ signal[s] \in {"aborted", "fired"}) =>
                 /\ pc'[s] = "resolved"
                 /\ calls'[s].start = 0
                 /\ ~listener'[s] /\ ~interval'[s] /\ ~started'[s]
                 /\ wsClient' = NoSession]_vars
    /\ [](\A s \in Sessions :
             (pc[s] = "resolved" /\ ~started[s]) =>
                 /\ calls[s].start = 0
                 /\ ~listener[s] /\ ~interval[s]
                 /\ wsClient # s)

\* the signal was aborted while the call awaited the prober; the client was
\* created, the start was not requested and the call resolved
C16_Witness ==
    \E s \in Sessions :
        /\ signal[s] = "fired" /\ pc[s] = "resolved" /\ ~started[s]
        /\ calls[s].factory = 1 /\ calls[s].start = 0


\* C17: the dedup cache changes only by stopGateway (emptied) or by recording
\* an identifier that was not in it (appended, the oldest dropped when the
\* cache was full).  Steps that start, settle or cancel a call, and steps
\* that log a duplicate, a bot-added or a bot-removed event leave contents
\* and order as they were; an identifier in the cache is suppressed on every
\* started transport, that of a later call included.
C17_CacheOnlyShrinksByEvictionOrStop ==
    /\ [][processedMessages' # processedMessages =>
             \/ justStopped' /\ processedMessages' = <<>>
             \/ \E m \in MessageIds :
                   /\ \A i \in 1..Len(processedMessages) : processedMessages[i] # m
                   /\ pending'[m] = pending[m] + 1
                   /\ processedMessages' =
                          (IF Len(processedMessages) >= MAX_PROCESSED_MESSAGES
                           THEN Tail(processedMessages)
                           ELSE processedMessages) \o <<m>>]_vars
    /\ [][(/\ ~justStopped'
           /\ \/ pc' # pc
              \/ signal' # signal
              \/ pending' = pending) =>
             processedMessages' = processedMessages]_vars
    /\ [](\A s \in Sessions, m \in MessageIds :
             (started[s] /\ \E i \in 1..Len(processedMessages) : processedMessages[i] = m) =>
                 ~ENABLED (MessageReceived(s, m) /\ pending' # pending))

\* a call that ran was cancelled, a later call is Running, both identifiers
\* recorded in an order the cache still has, and a duplicate was just skipped
C17_Witness ==
    \E s, t \in Sessions :
        /\ s < t
        /\ pc[s] = "resolved" /\ started[s]
        /\ pc[t] = "running"
        /\ calls[t].probe = 1
        /\ processedMessages = <<2, 1>>
        /\ lastLog = "skipping duplicate message"


\* C18: the handler is invoked for an identifier only in the step that finds
\* it absent from the cache and records it; no handler outcome (return or
\* throw) changes the cache; while the identifier is in the cache no delivery
\* of it starts the handler, whether the first invocation is still suspended
\* or has thrown.
C18_CheckAndRecordAtomic ==
    /\ [][\A m \in MessageIds :
             pending'[m] > pending[m] =>
                 /\ \A i \in 1..Len(processedMessages) : processedMessages[i] # m
                 /\ \E i \in 1..Len(processedMessages') : processedMessages'[i] = m]_vars
    /\ [][(\E m \in PayloadIds : pending'[m] < pending[m]) =>
             processedMessages' = processedMessages]_vars
    /\ [](\A s \in Sessions, m \in MessageIds :
             (\E i \in 1..Len(processedMessages) : processedMessages[i] = m) =>
                 ~ENABLED (MessageReceived(s, m) /\ pending' # pending))

\* the handler of m threw, m is still recorded, and a redelivery of m is
\* possible and is skipped
C18_Witness ==
    \E m \in MessageIds :
        /\ lastLog = "error handling message"
        /\ pending[m] = 0
        /\ processedMessages = <<m>>
        /\ ENABLED (MessageReceived(1, m) /\ lastLog' = "skipping duplicate message")

\* C19: in the step that follows stopGateway, unless that step is a new
\* startGateway call, the handle and the bot identity stay absent and the
\* dedup cache stays empty.
C19_StaysClearedAfterStop ==
    [][(justStopped /\ \A s \in Sessions : pc[s] = "idle" => pc'[s] = "idle") =>
          /\ wsClient' = NoSession
          /\ botOpenId' = NoBot
          /\ processedMessages' = <<>>]_vars

\* C20: once a call has resolved, or stopGateway has just been called, no
\* delivery on that call's dispatcher starts the message handler and no poll
\* tick of that call occurs.
C20_NothingRunsAfterEnd ==
    [][\A s \in Sessions :
          (pc[s] = "resolved" \/ justStopped) =>
              /\ \A m \in PayloadIds : ~(MessageReceived(s, m) /\ pending' # pending)
              /\ \A info \in ReconnectInfos : ~PollTick(s, info)]_vars

=============================================================================
